---- MODULE Spec2Model ----
(***************************************************************************)
(* A model of cm/losses.py: normal_kl, approx_standard_normal_cdf,         *)
(* discretized_gaussian_log_likelihood, gaussian_ecfd and uniform_ecfd.    *)
(*                                                                         *)
(* Number representation.  Tensor elements are fixed-point integers; every *)
(* operator states its unit.  A Python float is a record of kind "scalar", *)
(* a torch Tensor a record of kind "tensor" with a shape (a sequence of    *)
(* dimensions) and its elements in row-major order; a raised exception is  *)
(* a record of kind "error".                                               *)
(***************************************************************************)
EXTENDS Integers, Sequences, FiniteSets, TLC

VARIABLES fn, args, pc, locals, ret

vars == <<fn, args, pc, locals, ret>>

(* ------------------------------ bounds --------------------------------- *)

\* longest 1-D tensor handed to normal_kl and the log-likelihood
MaxLen == 2

\* largest batch size of the sample batches X and Y
MaxBatch == 2

\* longest list of bandwidths
MaxSigmas == 2

\* largest num_freqs
MaxFreqs == 2

(* --------------------------- tensor engine ----------------------------- *)

Scalar(v) == [kind |-> "scalar", v |-> v]

Tensor(shape, data) == [kind |-> "tensor", shape |-> shape, data |-> data]

Error(name) == [kind |-> "error", name |-> name]

None == [kind |-> "none"]

\* isinstance(obj, th.Tensor)
IsTensor(obj) == obj.kind = "tensor"

\* the shape an operand takes part in broadcasting with: a Python float
\* behaves as a 0-dim tensor
ShapeOf(obj) == IF IsTensor(obj) THEN obj.shape ELSE <<>>

DataOf(obj) == IF IsTensor(obj) THEN obj.data ELSE <<obj.v>>

Max2(a, b) == IF a >= b THEN a ELSE b

\* the j-th dimension counted from the right, 1 where the shape is shorter
DimR(s, j) == IF j <= Len(s) THEN s[Len(s) - j + 1] ELSE 1

RECURSIVE ProdR(_, _)
\* the product of the last j dimensions of s
ProdR(s, j) == IF j = 0 THEN 1 ELSE DimR(s, j) * ProdR(s, j - 1)

NumEl(s) == ProdR(s, Len(s))

\* torch broadcasting: trailing dimensions are aligned, and two dimensions
\* are compatible when they are equal or one of them is 1
Broadcastable(s1, s2) ==
    \A j \in 1..Max2(Len(s1), Len(s2)) :
        DimR(s1, j) = DimR(s2, j) \/ DimR(s1, j) = 1 \/ DimR(s2, j) = 1

BroadcastShape(s1, s2) ==
    LET n == Max2(Len(s1), Len(s2))
    IN  [k \in 1..n |-> Max2(DimR(s1, n - k + 1), DimR(s2, n - k + 1))]

RECURSIVE OffsetR(_, _, _, _)
\* the row-major offset in an operand of shape s of the element that is
\* broadcast to offset i (0-based) of the result shape rs; the sum runs over
\* the last j dimensions of s
OffsetR(s, rs, i, j) ==
    IF j = 0 THEN 0
    ELSE LET coord == (i \div ProdR(rs, j - 1)) % DimR(rs, j)
             here  == IF DimR(s, j) = 1 THEN 0 ELSE coord * ProdR(s, j - 1)
         IN  here + OffsetR(s, rs, i, j - 1)

\* the element of obj seen at offset i (0-based) of the broadcast shape rs
At(obj, rs, i) == DataOf(obj)[OffsetR(ShapeOf(obj), rs, i, Len(ShapeOf(obj))) + 1]

\* e^k in units of 1/1000 for k = -8..8
ExpTable ==
    <<0, 1, 2, 7, 18, 50, 135, 368, 1000, 2718, 7389, 20086, 54598, 148413,
      403429, 1096633, 2980958>>

\* th.exp of a whole number of nats, in units of 1/1000; over -8..8 a
\* float32 exponential neither overflows to inf nor underflows to 0
th_exp(k) == ExpTable[k + 9]

(* ------------------------------ normal_kl ------------------------------ *)

KLArgs(a) == <<a.mean1, a.logvar1, a.mean2, a.logvar2>>

\* a loop that looks at the first distribution's arguments only
FirstTensorOfFirstPair(a) ==
    IF IsTensor(a.mean1) THEN a.mean1
    ELSE IF IsTensor(a.logvar1) THEN a.logvar1
    ELSE None

\* the loop of lines 18-22: the first Tensor among (mean1, logvar1, mean2,
\* logvar2), or None
FirstTensor(a) ==
    IF \E k \in 1..4 : IsTensor(KLArgs(a)[k])
    THEN KLArgs(a)[CHOOSE k \in 1..4 :
             /\ IsTensor(KLArgs(a)[k])
             /\ \A h \in 1..(k - 1) : ~IsTensor(KLArgs(a)[h])]
    ELSE None

\* x if isinstance(x, th.Tensor) else th.tensor(x).to(tensor): a 0-dim tensor
ToTensor(x) == IF IsTensor(x) THEN x ELSE Tensor(<<>>, <<x.v>>)

\* the broadcast of the shapes of a sequence of operands: ok is FALSE when
\* two of them cannot be broadcast together
RECURSIVE BroadcastAll(_)
BroadcastAll(objs) ==
    IF Len(objs) = 1 THEN [ok |-> TRUE, shape |-> ShapeOf(objs[1])]
    ELSE LET rest == BroadcastAll(Tail(objs))
         IN  IF rest.ok /\ Broadcastable(ShapeOf(objs[1]), rest.shape)
             THEN [ok |-> TRUE, shape |-> BroadcastShape(ShapeOf(objs[1]), rest.shape)]
             ELSE [ok |-> FALSE, shape |-> <<>>]

\* the formula with the sign of its constant term flipped
KLElementPlusOne(m1, lv1, m2, lv2) ==
    1000 + 1000 * lv2 - 1000 * lv1 + th_exp(lv1 - lv2)
        + ((m1 - m2) * (m1 - m2)) * th_exp(-lv2)

\* one element of lines 32-38, in units of 1/2000: the means and log
\* variances are whole numbers, th_exp is in 1/1000, and the leading 0.5
\* halves the unit
KLElement(m1, lv1, m2, lv2) ==
    -1000 + 1000 * lv2 - 1000 * lv1 + th_exp(lv1 - lv2)
        + ((m1 - m2) * (m1 - m2)) * th_exp(-lv2)

\* lines 32-38 on the promoted operands
KLFormula(m1, lv1, m2, lv2) ==
    LET b  == BroadcastAll(<<m1, lv1, m2, lv2>>)
        rs == b.shape
    IN  IF ~b.ok THEN Error("RuntimeError")
        ELSE Tensor(rs, [i \in 1..NumEl(rs) |->
                 KLElement(At(m1, rs, i - 1), At(lv1, rs, i - 1),
                           At(m2, rs, i - 1), At(lv2, rs, i - 1))])

MeanVals == {0, 1}

LogvarVals == {-1, 0}

\* the Python floats and the 1-D tensors of length 1..MaxLen over vals
Operands(vals) ==
    {Scalar(v) : v \in vals}
        \cup UNION {{Tensor(<<n>>, d) : d \in [1..n -> vals]} : n \in 1..MaxLen}

KLInit ==
    /\ fn = "normal_kl"
    /\ args \in [mean1 : Operands(MeanVals), logvar1 : Operands(LogvarVals),
                 mean2 : Operands(MeanVals), logvar2 : Operands(LogvarVals)]
    /\ pc = "entry"
    /\ locals = [tensor |-> None]
    /\ ret = None

\* lines 18-23: find the first Tensor and assert there is one
KLAssert ==
    /\ fn = "normal_kl" /\ pc = "entry"
    /\ LET tensor == FirstTensor(args)
       IN  IF tensor = None
           THEN /\ pc' = "raised"
                /\ ret' = Error("AssertionError")
                /\ locals' = [tensor |-> None]
           ELSE /\ pc' = "promote"
                /\ ret' = ret
                /\ locals' = [tensor |-> tensor]
    /\ UNCHANGED <<fn, args>>

\* lines 27-30: the log variances are forced to be Tensors
KLPromote ==
    /\ fn = "normal_kl" /\ pc = "promote"
    /\ locals' = [tensor  |-> locals.tensor,
                  logvar1 |-> ToTensor(args.logvar1),
                  logvar2 |-> ToTensor(args.logvar2)]
    /\ pc' = "compute"
    /\ UNCHANGED <<fn, args, ret>>

\* lines 32-38: the elementwise formula, broadcasting its operands
KLReturn ==
    /\ fn = "normal_kl" /\ pc = "compute"
    /\ ret' = KLFormula(args.mean1, locals.logvar1, args.mean2, locals.logvar2)
    /\ pc' = IF ret'.kind = "error" THEN "raised" ELSE "done"
    /\ UNCHANGED <<fn, args, locals>>

KLNext == KLAssert \/ KLPromote \/ KLReturn

SpecKL == KLInit /\ [][KLNext]_vars

(* ------------------ discretized_gaussian_log_likelihood ---------------- *)
(* x and means are in units of 1/10000, log_scales in whole nats.  A       *)
(* probability p is the pair <<hi, lo>> with p = (hi * 10^6 + lo) * 1e-12   *)
(* and 0 <= lo < 10^6, so that 1.0 and the floor 1e-12 are both exact.  A  *)
(* logarithm is a record: finite, in units of 1/1000 nat, or -inf, or nan.  *)

PZero == <<0, 0>>

POne == <<1000000, 0>>

\* the floor 1e-12 of lines 67, 68 and 73
ClampMin == <<0, 1>>

PSub(a, b) ==
    IF a[2] >= b[2] THEN <<a[1] - b[1], a[2] - b[2]>>
    ELSE <<a[1] - b[1] - 1, a[2] - b[2] + 1000000>>

PLess(a, b) == a[1] < b[1] \/ (a[1] = b[1] /\ a[2] < b[2])

\* Tensor.clamp(min=floor)
clamp(a, floor) == IF PLess(a, floor) THEN floor ELSE a

\* 1000 * ln(m / 10) for m = 10..99
LnLead ==
    <<0, 95, 182, 262, 336, 405, 470, 531, 588, 642, 693, 742, 788, 833, 875,
      916, 956, 993, 1030, 1065, 1099, 1131, 1163, 1194, 1224, 1253, 1281,
      1308, 1335, 1361, 1386, 1411, 1435, 1459, 1482, 1504, 1526, 1548, 1569,
      1589, 1609, 1629, 1649, 1668, 1686, 1705, 1723, 1740, 1758, 1775, 1792,
      1808, 1825, 1841, 1856, 1872, 1887, 1902, 1917, 1932, 1946, 1960, 1974,
      1988, 2001, 2015, 2028, 2041, 2054, 2067, 2079, 2092, 2104, 2116, 2128,
      2140, 2152, 2163, 2175, 2186, 2197, 2208, 2219, 2230, 2241, 2251, 2262,
      2272, 2282, 2293>>

RECURSIVE Digits(_)
\* the number of decimal digits of n > 0
Digits(n) == IF n < 10 THEN 1 ELSE 1 + Digits(n \div 10)

RECURSIVE Lead2(_)
\* the two leading decimal digits of n > 0, as a number in 10..99
Lead2(n) == IF n < 10 THEN 10 * n ELSE IF n < 100 THEN n ELSE Lead2(n \div 10)

\* 1000 * ln(n * 10^e) for n > 0, to the two leading digits of n
LnMilli(n, e) == ((Digits(n) - 1 + e) * 2302585) \div 1000 + LnLead[Lead2(n) - 9]

Finite(v) == [cls |-> "finite", v |-> v]

NegInf == [cls |-> "-inf"]

NaN == [cls |-> "nan"]

\* th.log of a probability: -inf at 0, nan below 0
th_log(p) ==
    IF p = PZero THEN NegInf
    ELSE IF PLess(p, PZero) THEN NaN
    ELSE IF p[1] > 0 THEN Finite(LnMilli(p[1], 6) - 27631)
    ELSE Finite(LnMilli(p[2], 0) - 27631)

\* lines 41-46 in float32 arithmetic, tabulated at the arguments (in units of
\* 1/10000) that the inputs below produce; 0.5 * (1 + tanh(u)) is exactly 0
\* or 1 once tanh(u) rounds to -1 or 1
approx_standard_normal_cdf(z) ==
    IF z >= 60000 THEN POne
    ELSE IF z <= -60000 THEN PZero
    ELSE CASE z = -20039 -> <<22489, 815950>>
           [] z = -20029 -> <<22543, 847561>>
           [] z = -19961 -> <<22914, 141417>>
           [] z = -19951 -> <<22969, 7492>>
           [] z = -10039 -> <<157866, 925001>>
           [] z = -10029 -> <<158107, 876778>>
           [] z = -9961 -> <<159752, 726555>>
           [] z = -9951 -> <<159995, 555878>>
           [] z = -2675 -> <<394548, 88312>>
           [] z = -2129 -> <<415705, 561638>>
           [] z = -1583 -> <<437111, 496925>>
           [] z = -49 -> <<498045, 176268>>
           [] z = -39 -> <<498444, 139957>>
           [] z = -29 -> <<498843, 73845>>
           [] z = 29 -> <<501156, 926155>>
           [] z = 39 -> <<501555, 860043>>
           [] z = 49 -> <<501954, 793930>>
           [] z = 1583 -> <<562888, 503075>>
           [] z = 2129 -> <<584294, 438362>>
           [] z = 2675 -> <<605451, 881886>>
           [] z = 9951 -> <<840004, 444122>>
           [] z = 9961 -> <<840247, 273445>>
           [] z = 10029 -> <<841892, 123222>>
           [] z = 10039 -> <<842133, 45197>>
           [] z = 19951 -> <<977030, 992508>>
           [] z = 19961 -> <<977085, 828781>>
           [] z = 20029 -> <<977456, 152439>>
           [] z = 20039 -> <<977510, 213852>>

\* inv_stdv * (centered_x + d), rounded to units of 1/10000; inv_stdv is in
\* units of 1/1000
Scaled(inv_stdv, centered_x, d) == (inv_stdv * (centered_x + d) + 500) \div 1000

\* lines 61-69 for one element: 1.0 / 255.0 is 39 units of 1/10000
DGLLLocals(x, mean, log_scale) ==
    LET centered_x == x - mean
        inv_stdv   == th_exp(-log_scale)
        cdf_plus   == approx_standard_normal_cdf(Scaled(inv_stdv, centered_x, 39))
        cdf_min    == approx_standard_normal_cdf(Scaled(inv_stdv, centered_x, -39))
    IN  [cdf_plus              |-> cdf_plus,
         cdf_min               |-> cdf_min,
         log_cdf_plus          |-> th_log(clamp(cdf_plus, ClampMin)),
         log_one_minus_cdf_min |-> th_log(clamp(PSub(POne, cdf_min), ClampMin)),
         cdf_delta             |-> PSub(cdf_plus, cdf_min)]

\* the branch selection with the thresholds included in the tails
DGLLWhereInclusive(x, l) ==
    IF x <= -9990 THEN l.log_cdf_plus
    ELSE IF x >= 9990 THEN l.log_one_minus_cdf_min
    ELSE th_log(clamp(l.cdf_delta, ClampMin))

\* the branch selection with the interior bin mass left unclamped
DGLLWhereUnclamped(x, l) ==
    IF x < -9990 THEN l.log_cdf_plus
    ELSE IF x > 9990 THEN l.log_one_minus_cdf_min
    ELSE th_log(l.cdf_delta)

\* lines 70-74 for one element: -0.999 and 0.999 are -9990 and 9990 units
DGLLWhere(x, l) ==
    IF x < -9990 THEN l.log_cdf_plus
    ELSE IF x > 9990 THEN l.log_one_minus_cdf_min
    ELSE th_log(clamp(l.cdf_delta, ClampMin))

XVals == {-10000, -9990, 0, 9990, 10000}

MeansVals == {-10000, 0, 10000}

LogScaleVals == {-4, 0}

\* the 1-D tensors of length 1..MaxLen over vals
Tensors(vals) ==
    UNION {{Tensor(<<n>>, d) : d \in [1..n -> vals]} : n \in 1..MaxLen}

DGLLInit ==
    /\ fn = "discretized_gaussian_log_likelihood"
    /\ args \in [x : Tensors(XVals), means : Tensors(MeansVals),
                 log_scales : Tensors(LogScaleVals)]
    /\ pc = "entry"
    /\ locals = <<>>
    /\ ret = None

\* a comparison that leaves log_scales out
SameShapeXMeans(a) == a.x.shape = a.means.shape

\* line 60: x.shape == means.shape == log_scales.shape
SameShape(a) == a.x.shape = a.means.shape /\ a.means.shape = a.log_scales.shape

\* line 60: the three shapes must be equal
DGLLAssert ==
    /\ fn = "discretized_gaussian_log_likelihood" /\ pc = "entry"
    /\ IF SameShape(args)
       THEN pc' = "compute" /\ ret' = ret
       ELSE pc' = "raised" /\ ret' = Error("AssertionError")
    /\ UNCHANGED <<fn, args, locals>>

\* lines 61-69: the elementwise intermediates
DGLLCompute ==
    /\ fn = "discretized_gaussian_log_likelihood" /\ pc = "compute"
    /\ locals' = [i \in 1..NumEl(args.x.shape) |->
                     DGLLLocals(args.x.data[i], args.means.data[i],
                                args.log_scales.data[i])]
    /\ pc' = "where"
    /\ UNCHANGED <<fn, args, ret>>

\* lines 70-76: the branch selection, the shape assertion and the return
DGLLReturn ==
    /\ fn = "discretized_gaussian_log_likelihood" /\ pc = "where"
    /\ LET log_probs == Tensor(args.x.shape,
                              [i \in 1..Len(locals) |->
                                  DGLLWhere(args.x.data[i], locals[i])])
       IN  IF log_probs.shape = args.x.shape
           THEN pc' = "done" /\ ret' = log_probs
           ELSE pc' = "raised" /\ ret' = Error("AssertionError")
    /\ UNCHANGED <<fn, args, locals>>

DGLLNext == DGLLAssert \/ DGLLCompute \/ DGLLReturn

SpecDGLL == DGLLInit /\ [][DGLLNext]_vars

(* ------------------------ gaussian_ecfd, uniform_ecfd ------------------ *)
(* Samples and bandwidths are whole numbers.  A random draw and a          *)
(* frequency are in units of 1/2, so that draws of magnitude below 1 exist; *)
(* an angle is in units of 1/2 radian; cosines and sines are in units of    *)
(* 1/1000 and losses in units of 1e-6.  X and Y live on the accelerator     *)
(* that lines 109 and 152 move the frequencies to.                          *)

\* 1000 * cos(h / 2) and 1000 * sin(h / 2) for h = 0..12
CosTable == <<1000, 878, 540, 71, -416, -801, -990, -936, -654, -211, 284, 709, 960>>

SinTable == <<0, 479, 841, 997, 909, 598, 141, -351, -757, -978, -959, -706, -279>>

Abs(n) == IF n >= 0 THEN n ELSE -n

th_cos(h) == CosTable[Abs(h) + 1]

th_sin(h) == IF h >= 0 THEN SinTable[h + 1] ELSE -SinTable[-h + 1]

RECURSIVE SumTo(_, _)
\* f[1] + ... + f[n]
SumTo(f, n) == IF n = 0 THEN 0 ELSE f[n] + SumTo(f, n - 1)

\* Tensor.to(dtype=th.long) of a value in units of 1/2: the whole number it
\* truncates to, toward zero
ToLong(d) == IF d >= 0 THEN d \div 2 ELSE -((-d) \div 2)

\* element (r, c) of a 2-D tensor, 1-based
At2(m, r, c) == m.data[(r - 1) * m.shape[2] + c]

\* the bandwidth that scales column c: a Python float, or the element that a
\* tensor of shape [1 x D] broadcasts to that column
SigmaAt(sigma, c) ==
    IF IsTensor(sigma) THEN sigma.data[IF NumEl(sigma.shape) = 1 THEN 1 ELSE c]
    ELSE sigma.v

\* frequencies that keep the drawn values in floating point
FloatFreqs(draw, sigma, num_freqs, dim) ==
    Tensor(<<num_freqs, dim>>,
           [k \in 1..(num_freqs * dim) |->
               draw[k] * SigmaAt(sigma, ((k - 1) % dim) + 1)])

\* line 109: the standard-normal draw is cast to th.long and then scaled
GaussianFreqs(draw, sigma, num_freqs, dim) ==
    Tensor(<<num_freqs, dim>>,
           [k \in 1..(num_freqs * dim) |->
               2 * ToLong(draw[k]) * SigmaAt(sigma, ((k - 1) % dim) + 1)])

\* th.matmul(t, X.t()): element (f, b) is the angle of sample b at frequency f
MatmulT(t, X, f, b) ==
    SumTo([d \in 1..t.shape[2] |-> At2(t, f, d) * At2(X, b, d)], t.shape[2])

\* the sum over the batch of cos (of sin) of the angles at frequency f; the
\* mean of lines 112-117 divides it by the batch size
CosSum(t, X, f) == SumTo([b \in 1..X.shape[1] |-> th_cos(MatmulT(t, X, f, b))], X.shape[1])

SinSum(t, X, f) == SumTo([b \in 1..X.shape[1] |-> th_sin(MatmulT(t, X, f, b))], X.shape[1])

\* lines 110-119 (and 153-162): Y is viewed with the batch size of X, which
\* fails unless Y holds batch_size * dim elements; the loss is the mean over
\* the frequencies of the squared distance of the two characteristic
\* functions
EcfdStatistic(t, X, Y) ==
    LET batch_size == X.shape[1]
        dim        == X.shape[2]
        num_freqs  == t.shape[1]
        Y_reshaped == Tensor(<<batch_size, dim>>, Y.data)
        sq(f)      == (CosSum(t, X, f) - CosSum(t, Y_reshaped, f)) ^ 2
                        + (SinSum(t, X, f) - SinSum(t, Y_reshaped, f)) ^ 2
    IN  IF NumEl(Y.shape) # batch_size * dim THEN Error("RuntimeError")
        ELSE Scalar(SumTo([f \in 1..num_freqs |-> sq(f)], num_freqs)
                        \div (num_freqs * batch_size * batch_size))

\* lines 105-119
_gaussian_ecfd(X, Y, sigma, num_freqs, draw) ==
    EcfdStatistic(GaussianFreqs(draw, sigma, num_freqs, X.shape[2]), X, Y)

\* lines 149-162: the module imports torch as th, so the name torch of line
\* 152 is not defined and the call raises before any frequency is drawn
_uniform_ecfd(X, Y, sigma, num_freqs) == Error("NameError")

\* th.norm(sigmas, p=2), to the whole number below
Norm2(sigmas) ==
    LET n  == NumEl(sigmas.shape)
        ss == SumTo([k \in 1..n |-> sigmas.data[k] * sigmas.data[k]], n)
    IN  CHOOSE r \in 0..ss : r * r <= ss /\ (r + 1) * (r + 1) > ss

SampleVals == {0, 1}

SigmaVals == {1, 2}

\* draws of -1.5, 0.5 and 1.0
DrawVals == {-3, 1, 2}

\* the sample batches [B x 1] with B in 1..MaxBatch
Batches ==
    UNION {{Tensor(<<b, 1>>, d) : d \in [1..b -> SampleVals]} : b \in 1..MaxBatch}

\* the lists of at most MaxSigmas bandwidths, as Python floats
SigmaLists ==
    UNION {[1..n -> {Scalar(v) : v \in SigmaVals}] : n \in 0..MaxSigmas}

\* the bandwidth tensors of shape [1 x 1]
SigmaTensors == {Tensor(<<1, 1>>, <<v>>) : v \in SigmaVals}

Draws(num_freqs, dim) == [1..(num_freqs * dim) -> DrawVals]

EcfdInit ==
    /\ fn \in {"gaussian_ecfd", "uniform_ecfd"}
    /\ \E optimize_sigma \in BOOLEAN :
          args \in [X : Batches, Y : Batches,
                    sigmas : IF optimize_sigma THEN SigmaTensors ELSE SigmaLists,
                    num_freqs : 1..MaxFreqs,
                    optimize_sigma : {optimize_sigma}]
    /\ pc = "entry"
    /\ locals = <<>>
    /\ ret = None

\* total_loss = 0.0 and the loop index, with the history of the call: the
\* number of frequency matrices drawn, the last draw and the frequencies made
\* of it, the bandwidths processed and the per-bandwidth losses
EcfdLocals ==
    [total_loss |-> Scalar(0), i |-> 1, ndraws |-> 0, raw |-> <<>>,
     t |-> <<>>, seen |-> <<>>, losses |-> <<>>]

\* lines 95-96 and 100
GaussianEntry ==
    /\ fn = "gaussian_ecfd" /\ pc = "entry"
    /\ locals' = EcfdLocals
    /\ pc' = IF args.optimize_sigma THEN "optimized" ELSE "loop"
    /\ UNCHANGED <<fn, args, ret>>

\* lines 97-99: one iteration of the loop over the bandwidths
GaussianLoopBody ==
    /\ fn = "gaussian_ecfd" /\ pc = "loop" /\ locals.i <= Len(args.sigmas)
    /\ \E draw \in Draws(args.num_freqs, args.X.shape[2]) :
          LET sigma      == args.sigmas[locals.i]
              batch_loss == _gaussian_ecfd(args.X, args.Y, sigma, args.num_freqs, draw)
          IN  IF batch_loss.kind = "error"
              THEN /\ pc' = "raised" /\ ret' = batch_loss
                   /\ locals' = [locals EXCEPT
                         !.ndraws = @ + 1, !.raw = draw, !.seen = Append(@, sigma),
                         !.t = GaussianFreqs(draw, sigma, args.num_freqs, args.X.shape[2])]
              ELSE /\ pc' = "loop" /\ ret' = ret
                   /\ locals' = [locals EXCEPT
                         !.total_loss = Tensor(<<>>, <<DataOf(@)[1] + batch_loss.v>>),
                         !.i = @ + 1, !.ndraws = @ + 1, !.raw = draw,
                         !.seen = Append(@, sigma),
                         !.t = GaussianFreqs(draw, sigma, args.num_freqs, args.X.shape[2]),
                         !.losses = Append(@, batch_loss.v)]
    /\ UNCHANGED <<fn, args>>

\* line 103 after the loop
GaussianLoopExit ==
    /\ fn = "gaussian_ecfd" /\ pc = "loop" /\ locals.i > Len(args.sigmas)
    /\ pc' = "done" /\ ret' = locals.total_loss
    /\ UNCHANGED <<fn, args, locals>>

\* lines 101-103: one statistic, divided by the norm of the bandwidth tensor
GaussianOptimized ==
    /\ fn = "gaussian_ecfd" /\ pc = "optimized"
    /\ \E draw \in Draws(args.num_freqs, args.X.shape[2]) :
          LET batch_loss == _gaussian_ecfd(args.X, args.Y, args.sigmas, args.num_freqs, draw)
              t == GaussianFreqs(draw, args.sigmas, args.num_freqs, args.X.shape[2])
          IN  IF batch_loss.kind = "error"
              THEN /\ pc' = "raised" /\ ret' = batch_loss
                   /\ locals' = [locals EXCEPT !.ndraws = @ + 1, !.raw = draw, !.t = t,
                                                !.seen = Append(@, args.sigmas)]
              ELSE /\ pc' = "done"
                   /\ ret' = Tensor(<<>>, <<batch_loss.v \div Norm2(args.sigmas)>>)
                   /\ locals' = [locals EXCEPT
                         !.total_loss = ret', !.ndraws = @ + 1, !.raw = draw, !.t = t,
                         !.seen = Append(@, args.sigmas),
                         !.losses = Append(@, batch_loss.v)]
    /\ UNCHANGED <<fn, args>>

\* lines 138-139 and 143
UniformEntry ==
    /\ fn = "uniform_ecfd" /\ pc = "entry"
    /\ locals' = EcfdLocals
    /\ pc' = IF args.optimize_sigma THEN "optimized" ELSE "loop"
    /\ UNCHANGED <<fn, args, ret>>

\* lines 140-142: the first iteration raises inside _uniform_ecfd
UniformLoopBody ==
    /\ fn = "uniform_ecfd" /\ pc = "loop" /\ locals.i <= Len(args.sigmas)
    /\ LET batch_loss == _uniform_ecfd(args.X, args.Y, args.sigmas[locals.i],
                                       args.num_freqs)
       IN  /\ pc' = "raised" /\ ret' = batch_loss
    /\ UNCHANGED <<fn, args, locals>>

\* line 146 after the loop
UniformLoopExit ==
    /\ fn = "uniform_ecfd" /\ pc = "loop" /\ locals.i > Len(args.sigmas)
    /\ pc' = "done" /\ ret' = locals.total_loss
    /\ UNCHANGED <<fn, args, locals>>

\* lines 144-146: the call of line 144 raises inside _uniform_ecfd
UniformOptimized ==
    /\ fn = "uniform_ecfd" /\ pc = "optimized"
    /\ LET batch_loss == _uniform_ecfd(args.X, args.Y, args.sigmas, args.num_freqs)
       IN  /\ pc' = "raised" /\ ret' = batch_loss
    /\ UNCHANGED <<fn, args, locals>>

EcfdNext ==
    \/ GaussianEntry \/ GaussianLoopBody \/ GaussianLoopExit \/ GaussianOptimized
    \/ UniformEntry \/ UniformLoopBody \/ UniformLoopExit \/ UniformOptimized

SpecECFD == EcfdInit /\ [][EcfdNext]_vars

(* ------------------------- claims on normal_kl ------------------------- *)

NoTensorGiven == \A k \in 1..4 : ~IsTensor(KLArgs(args)[k])

\* C1: normal_kl called with no Tensor among its four arguments fails its
\* assertion at entry, before the log variances are promoted and before any
\* arithmetic; with at least one Tensor among them the assertion passes.
C1_KLPrecondition ==
    (fn = "normal_kl" /\ pc # "entry") =>
        IF NoTensorGiven
        THEN /\ pc = "raised"
             /\ ret = Error("AssertionError")
             /\ DOMAIN locals = {"tensor"}
        ELSE /\ ret # Error("AssertionError")
             /\ IsTensor(locals.tensor)

C1_Witness ==
    /\ fn = "normal_kl" /\ pc = "raised" /\ NoTensorGiven
    /\ ret = Error("AssertionError")

C1_WitnessPass ==
    /\ fn = "normal_kl" /\ pc = "done"
    /\ ~IsTensor(args.mean1) /\ ~IsTensor(args.logvar1) /\ ~IsTensor(args.mean2)
    /\ IsTensor(args.logvar2)

\* every element of a equals every element of b: the two operands hold the
\* same value wherever they are broadcast to
SameConstant(a, b) ==
    \E v \in MeanVals \cup LogvarVals :
        /\ \A i \in DOMAIN DataOf(a) : DataOf(a)[i] = v
        /\ \A i \in DOMAIN DataOf(b) : DataOf(b)[i] = v

SameOperand(a, b) == a = b \/ SameConstant(a, b)

KLLengths == {Len(DataOf(KLArgs(args)[k])) : k \in 1..4}

\* 1-D operands and Python floats broadcast together when the lengths other
\* than 1 agree, and then to the longest of them
KLBroadcasts == \A n \in KLLengths, m \in KLLengths : n = m \/ n = 1 \/ m = 1

KLLongest == CHOOSE n \in KLLengths : \A m \in KLLengths : m <= n

KLSelfCall ==
    /\ fn = "normal_kl" /\ pc \in {"done", "raised"}
    /\ ~NoTensorGiven /\ KLBroadcasts
    /\ SameOperand(args.mean1, args.mean2)
    /\ SameOperand(args.logvar1, args.logvar2)

\* C8: normal_kl(m, v, m, v) with at least one Tensor among m and v is zero
\* in every element, and its shape is the broadcast of the argument shapes
\* (a Python float against a tensor of shape [2] gives shape [2]).
C8_KLSelfZero ==
    KLSelfCall =>
        /\ pc = "done" /\ IsTensor(ret)
        /\ ret.shape = <<KLLongest>>
        /\ Len(ret.data) = KLLongest
        /\ \A i \in 1..Len(ret.data) : ret.data[i] = 0

C8_Witness ==
    /\ KLSelfCall /\ pc = "done"
    /\ args.mean1 = Scalar(0) /\ args.logvar1 = Scalar(0)
    /\ args.mean2 = Tensor(<<2>>, <<0, 0>>) /\ args.logvar2 = Tensor(<<2>>, <<0, 0>>)
    /\ ret = Tensor(<<2>>, <<0, 0>>)

(* --------- claims on discretized_gaussian_log_likelihood ---------------- *)

DGLLCalled == fn = "discretized_gaussian_log_likelihood"

ShapesAgree ==
    /\ args.x.shape = args.means.shape
    /\ args.x.shape = args.log_scales.shape

\* C2: with shapes that are not all equal the call fails its assertion before
\* anything is computed; with equal shapes it returns a tensor of that shape.
C2_DGLLShape ==
    (DGLLCalled /\ pc # "entry") =>
        IF ShapesAgree
        THEN /\ pc # "raised" /\ ret # Error("AssertionError")
             /\ pc = "done" =>
                    /\ IsTensor(ret) /\ ret.shape = args.x.shape
                    /\ Len(ret.data) = Len(args.x.data)
        ELSE /\ pc = "raised" /\ ret = Error("AssertionError")
             /\ locals = <<>>

C2_Witness ==
    /\ DGLLCalled /\ pc = "raised"
    /\ args.x.shape = <<2>> /\ args.means.shape = <<2>>
    /\ args.log_scales.shape = <<1>>
    /\ ret = Error("AssertionError")

C2_WitnessDone ==
    /\ DGLLCalled /\ pc = "done" /\ args.x.shape = <<2>> /\ ret.shape = <<2>>

LeftTail(l) == th_log(clamp(l.cdf_plus, ClampMin))

RightTail(l) == th_log(clamp(PSub(POne, l.cdf_min), ClampMin))

Interior(l) == th_log(clamp(PSub(l.cdf_plus, l.cdf_min), ClampMin))

\* C3: each output element is the left-tail value where x < -0.999, else the
\* right-tail value where x > 0.999, else the interior value; x = -1.0 is a
\* left tail, x = 1.0 a right tail, and x = 0.0, -0.999 and 0.999 interior.
C3_DGLLBranch ==
    (DGLLCalled /\ pc = "done") =>
        \A i \in 1..Len(args.x.data) :
            LET x == args.x.data[i]
                l == locals[i]
            IN  /\ x < -9990 => ret.data[i] = LeftTail(l)
                /\ x > 9990 => ret.data[i] = RightTail(l)
                /\ (x >= -9990 /\ x <= 9990) => ret.data[i] = Interior(l)
                /\ x = -10000 => ret.data[i] = LeftTail(l)
                /\ x = 10000 => ret.data[i] = RightTail(l)
                /\ x \in {-9990, 0, 9990} => ret.data[i] = Interior(l)

\* a boundary value on each side, where the three branch values all differ
C3_Witness ==
    /\ DGLLCalled /\ pc = "done"
    /\ args.x.data = <<-9990, 9990>>
    /\ \A i \in 1..2 :
          /\ ret.data[i] = Interior(locals[i])
          /\ Interior(locals[i]) # LeftTail(locals[i])
          /\ Interior(locals[i]) # RightTail(locals[i])

\* log(1e-12) in units of 1/1000 nat
LogFloor == th_log(ClampMin).v

\* C4: the argument of every logarithm is floored at 1e-12, so every output
\* element is finite and at least log(1e-12); where the interior bin mass
\* cdf_plus - cdf_min is zero or negative the interior output is log(1e-12).
C4_DGLLFloor ==
    (DGLLCalled /\ pc = "done") =>
        \A i \in 1..Len(args.x.data) :
            LET x == args.x.data[i]
                l == locals[i]
            IN  /\ ret.data[i].cls = "finite" /\ ret.data[i].v >= LogFloor
                /\ l.log_cdf_plus.cls = "finite" /\ l.log_cdf_plus.v >= LogFloor
                /\ l.log_one_minus_cdf_min.cls = "finite"
                /\ l.log_one_minus_cdf_min.v >= LogFloor
                /\ (x >= -9990 /\ x <= 9990 /\ ~PLess(PZero, l.cdf_delta))
                      => ret.data[i] = Finite(LogFloor)

\* an interior element whose bin mass cancelled to exactly zero
C4_Witness ==
    /\ DGLLCalled /\ pc = "done"
    /\ \E i \in 1..Len(args.x.data) :
          /\ args.x.data[i] = 0
          /\ locals[i].cdf_delta = PZero
          /\ ret.data[i] = Finite(-27631)

(* ------------------ claims on gaussian_ecfd and uniform_ecfd ----------- *)

EcfdCalled == fn \in {"gaussian_ecfd", "uniform_ecfd"}

Terminated == pc \in {"done", "raised"}

SameBatchSize == args.X.shape[1] = args.Y.shape[1]

\* C5: every call of either variant, in either mode, with batches of equal
\* dim, positive bandwidths and num_freqs >= 1 completes and returns a
\* scalar >= 0.  (Stated for batches of equal size.)
C5_EcfdNonNegative ==
    (EcfdCalled /\ Terminated /\ SameBatchSize) =>
        /\ pc = "done"
        /\ ret.kind \in {"scalar", "tensor"}
        /\ DataOf(ret)[1] >= 0

\* C6: a call whose batches differ in size but agree in dim returns the
\* distance without error.
C6_EcfdBatchSizes ==
    (EcfdCalled /\ Terminated /\ ~SameBatchSize) =>
        /\ pc = "done"
        /\ ret.kind \in {"scalar", "tensor"}

\* C7: once a bandwidth has been processed a frequency matrix has been
\* drawn, and every entry of it is sigma times the drawn value, with no
\* truncation to a whole number.
C7_EcfdFloatFreqs ==
    (EcfdCalled /\ locals # <<>>) =>
        /\ (pc = "raised" \/ locals.i > 1) => locals.ndraws > 0
        /\ locals.ndraws > 0 =>
              locals.t = FloatFreqs(locals.raw, locals.seen[Len(locals.seen)],
                                    args.num_freqs, args.X.shape[2])

\* C9: in fixed-bandwidth mode the bandwidths are processed in the given
\* order with one draw each, and the sum of the per-bandwidth losses is
\* returned; an empty list gives 0.  (Stated for batches of equal size.)
C9_EcfdFixedSum ==
    (EcfdCalled /\ ~args.optimize_sigma /\ Terminated /\ SameBatchSize) =>
        /\ pc = "done"
        /\ locals.seen = args.sigmas
        /\ locals.ndraws = Len(args.sigmas)
        /\ Len(locals.losses) = Len(args.sigmas)
        /\ DataOf(ret)[1] = SumTo(locals.losses, Len(locals.losses))
        /\ args.sigmas = <<>> => DataOf(ret)[1] = 0

\* C10: in optimized-bandwidth mode both variants compute the statistic
\* once, with one draw scaled by the bandwidth tensor itself, and return it
\* divided by the L2 norm of the tensor.  (Stated for batches of equal size.)
C10_EcfdOptimizedOnce ==
    (EcfdCalled /\ args.optimize_sigma /\ Terminated /\ SameBatchSize) =>
        /\ pc = "done"
        /\ locals.seen = <<args.sigmas>>
        /\ locals.ndraws = 1
        /\ Len(locals.losses) = 1
        /\ DataOf(ret)[1] = locals.losses[1] \div Norm2(args.sigmas)

====
